---- MODULE Spec2Model ----
(***************************************************************************)
(* cli-typer (src/cli_typer.py): the typing session loop, its counters,    *)
(* its completion check and the outer restart loop, as a state machine.    *)
(*                                                                         *)
(* A character is a one-character string; a text is a sequence of          *)
(* characters.  A key returned by get_wch() is a token: a printable        *)
(* character stands for itself, the other strings and the integer key      *)
(* codes are named ("TAB" is "\t", "DEL" is "\x7f", "KEY_BACKSPACE" is     *)
(* curses.KEY_BACKSPACE, ...).  time.time() is the integer clock `now`.    *)
(*                                                                         *)
(* render_screen reads text, typed and the terminal size and writes to the *)
(* terminal only.  Spec, SpecLive and SpecScenario follow the session and  *)
(* leave the terminal out (scr and view keep NoScreen and NoView);         *)
(* SpecLayout follows what render_screen computes, for target texts and    *)
(* terminal sizes small enough that lines wrap, split and scroll.          *)
(***************************************************************************)
EXTENDS Integers, Sequences, FiniteSets, TLC

\* ------------------------------------------------------------------ bounds
\* The clock runs from 0 to MaxTime.
MaxTime == 2
\* config.seconds ranges over 1..MaxSeconds, config.words over 1..MaxWords.
MaxSeconds == 1
MaxWords == 1
\* The source sizes the time-mode buffer with the literals 50 (its floor,
\* line 149) and 300 (line 149) and extends it by 50 words (line 380).  The
\* model keeps the formulas and scales the three word counts by the same
\* factor: BufWords stands for 50, 6 * BufWords for 300.
BufWords == 2
\* Keys are typed while TypedLog is shorter than MaxTyped.
MaxTyped == 3
\* SpecExtend: the key 'a' is typed while TypedLog is shorter than
\* MaxExtendTyped, far enough to extend the shortest buffer twice.
MaxExtendTyped == 7
\* SpecLayout: a target text holds 1..MaxLayoutWords words, the text area is
\* 1..MaxWidth columns wide, the terminal 8..MaxHeight rows high (or as
\* high as shows the keyboard).
MaxLayoutWords == 2
MaxWidth == 4
MaxHeight == 9

\* --------------------------------------------------------------- constants
None == -1

Max(a, b) == IF a >= b THEN a ELSE b

\* DEFAULT_WORDS, cut down to two words: "a" and "ab".
DEFAULT_WORDS == { <<"a">>, <<"a", "b">> }

\* Keys of get_wch().  Strings:
PrintableKeys == {"a", "b", "c", "X", " "}
\* the printable keys the user presses in Spec
TypedKeys == {"a", "b", " "}
EnterKeys == {"ENTER"}
BackspaceChars == {"DEL", "BS"}
TabKey == "TAB"
EscKey == "ESC"
OtherStrKeys == {"SOH"}
\* Integer key codes:
BackspaceCodes == {"KEY_BACKSPACE", "INT_127"}
KeyExit == "KEY_EXIT"
KeyResize == "KEY_RESIZE"
OtherCodes == {"KEY_UP"}
\* Keys of the results prompt.
RestartLetters == {"r", "R"}
QuitLetters == {"q", "Q"}

StrKeys ==
    PrintableKeys \cup EnterKeys \cup BackspaceChars \cup {TabKey, EscKey}
        \cup OtherStrKeys \cup RestartLetters \cup QuitLetters

\* isinstance(ch, str)
IsStr(k) == k \in StrKeys

\* ch.isprintable() or ch == " "
IsPrintable(ch) == ch \in PrintableKeys \cup RestartLetters \cup QuitLetters \cup {" "}

\* (variant: the test inverted, ch.strip() == "")
StripIsEmpty(ch) == ch = " "

\* ch.strip() != ""
StripNonEmpty(ch) == ch # " "

\* lines 347-349: enter is treated as a space
EnterAsSpace(k) == IF k \in EnterKeys THEN " " ELSE k

VARIABLES
    config,      \* Config: mode, seconds, words, seed
    stream,      \* the word sequence random.Random(config.seed) yields
    text,        \* typing_session: text
    typed,       \* typing_session: typed
    stats,       \* typing_session: stats
    pc,          \* "typing" (line 335), "results" (line 409), "returned", "exit"
    ret,         \* the Stats typing_session returned to _wrapped
    now,         \* time.time()
    plain,       \* history: printable events the main loop handled this session
                 \*          while it handled no backspace event (-1 after one)
    ev,          \* history: the kind of the last event (key, start, restart)
    rt,          \* history: the session before a printable event, while the
                 \*          next key event is its backspace
    scn,         \* history: how far the keys of this session follow
                 \*          'a', 'b', 'c', backspace, 'X' on target "abX"
    text0,       \* history: the text this session started with
    scr,         \* stdscr.getmaxyx(): <<height, width>>
    view         \* what the last render_screen computed: lines,
                 \* flat_to_line, caret_line, usable_lines, scroll

vars ==
    <<config, stream, text, typed, stats, pc, ret, now,
      plain, ev, rt, scn, text0, scr, view>>

\* ------------------------------------------------------------------- Stats
\* Stats()
NewStats == [started |-> None, ended |-> None, typed |-> 0, correct |-> 0, mistakes |-> 0]

\* Stats.start
StatsStart(s, t) == IF s.started = None THEN [s EXCEPT !.started = t] ELSE s

\* Stats.stop
StatsStop(s, t) == IF s.ended = None THEN [s EXCEPT !.ended = t] ELSE s

\* Stats.seconds_elapsed
SecondsElapsed(s, t) ==
    IF s.started = None THEN 0
    ELSE LET end == IF s.ended # None THEN s.ended ELSE t
         IN  Max(0, end - s.started)

\* Stats.accuracy and Stats.raw_wpm are floats; the model keeps each as the
\* fraction <<numerator, denominator>> the code divides.
\* Stats.accuracy
Accuracy(s) == IF s.typed = 0 THEN <<0, 1>> ELSE <<s.correct, s.typed>>

\* Stats.raw_wpm: (correct / 5.0) / (seconds_elapsed / 60.0)
RawWpm(s, t) ==
    IF SecondsElapsed(s, t) <= 0 THEN <<0, 1>>
    ELSE <<s.correct * 60, 5 * SecondsElapsed(s, t)>>

\* -------------------------------------------------------------- WordSource
\* build_text: est_words = int(max(50, (config.seconds / 60.0) * 300))
EstWords(cfg) == Max(BufWords, (cfg.seconds * (6 * BufWords)) \div 60)

\* the words a session draws from one source
StreamLen(cfg) ==
    IF cfg.mode = "words" THEN Max(1, cfg.words) ELSE Max(EstWords(cfg), BufWords)

\* The sequences a new WordSource(config) can draw: random.Random(seed) is
\* the same sequence for the same seed, any sequence for seed None.
WordSources(cfg, strm) ==
    IF cfg.seed = None THEN [1..StreamLen(cfg) -> DEFAULT_WORDS] ELSE {strm}

\* WordSource.generate, the first call on a source
Generate(src, count) == SubSeq(src, 1, count)

\* " ".join(words)
RECURSIVE Join(_)
Join(words) ==
    IF Len(words) = 0 THEN <<>>
    ELSE IF Len(words) = 1 THEN words[1]
    ELSE words[1] \o <<" ">> \o Join(Tail(words))

WordCount(cfg) == IF cfg.mode = "words" THEN Max(1, cfg.words) ELSE EstWords(cfg)

BuildText(src, cfg) == Join(Generate(src, WordCount(cfg)))

\* the extension of line 380: " " + " ".join(WordSource(config).generate(50))
ExtendWords == BufWords

\* (variant: the extension takes the words the stream yields last, after
\* those of the initial text)
ExtensionContinues(src) ==
    <<" ">> \o Join(SubSeq(src, Len(src) - ExtendWords + 1, Len(src)))

Extension(src) == <<" ">> \o Join(Generate(src, ExtendWords))

\* text.split(" ")
RECURSIVE Split(_)
Split(tx) ==
    IF \A i \in 1..Len(tx) : tx[i] # " " THEN <<tx>>
    ELSE LET i == CHOOSE n \in 1..Len(tx) :
                     tx[n] = " " /\ \A j \in 1..(n - 1) : tx[j] # " "
         IN  <<SubSeq(tx, 1, i - 1)>> \o Split(SubSeq(tx, i + 1, Len(tx)))

\* ------------------------------------------------------------------ layout
\* The terminal is left out of the session specifications.
NoScreen == <<0, 0>>
NoView ==
    [lines |-> <<>>, kinds |-> <<>>, flat_to_line |-> <<>>,
     caret_line |-> 0, usable_lines |-> 0, scroll |-> 0]

\* lines 131-133: the chunks of `width` characters cut from an oversized word
RECURSIVE Chunks(_, _)
Chunks(w, width) ==
    IF Len(w) > width
    THEN <<SubSeq(w, 1, width)>> \o Chunks(SubSeq(w, width + 1, Len(w)), width)
    ELSE <<>>

\* line 134: what the loop of lines 131-133 leaves of the word
RECURSIVE Remainder(_, _)
Remainder(w, width) ==
    IF Len(w) > width THEN Remainder(SubSeq(w, width + 1, Len(w)), width) ELSE w

\* (variant: line 130 missing, the closed line is not emitted)
WrapWordDropLine(st, w, width) ==
    LET trial == IF st.line = <<>> THEN w ELSE st.line \o <<" ">> \o w
        cs == Chunks(w, width)
    IN  IF Len(trial) <= width THEN [st EXCEPT !.line = trial]
        ELSE [lines |-> st.lines \o cs,
              kinds |-> st.kinds \o [i \in 1..Len(cs) |-> "split"],
              line |-> Remainder(w, width)]

\* (variant: lines 131-133 missing, an oversized word is not split)
WrapWordNoSplit(st, w, width) ==
    LET trial == IF st.line = <<>> THEN w ELSE st.line \o <<" ">> \o w
        closed == st.line # <<>>
    IN  IF Len(trial) <= width THEN [st EXCEPT !.line = trial]
        ELSE [lines |-> IF closed THEN Append(st.lines, st.line) ELSE st.lines,
              kinds |-> IF closed THEN Append(st.kinds, "wrap") ELSE st.kinds,
              line |-> w]

\* lines 120-134, one turn of the loop over the words.  st.lines and st.line
\* are `lines` and `line`; st.kinds is history: for each line emitted, "wrap"
\* if word wrapping closed it (line 130), "split" if it was cut from an
\* oversized word (line 132), "end" for the trailing line (line 136).
WrapWord(st, w, width) ==
    LET trial == IF st.line = <<>> THEN w ELSE st.line \o <<" ">> \o w
        closed == st.line # <<>>
        cs == Chunks(w, width)
    IN  IF Len(trial) <= width THEN [st EXCEPT !.line = trial]
        ELSE [lines |-> (IF closed THEN Append(st.lines, st.line) ELSE st.lines) \o cs,
              kinds |-> (IF closed THEN Append(st.kinds, "wrap") ELSE st.kinds)
                            \o [i \in 1..Len(cs) |-> "split"],
              line |-> Remainder(w, width)]

RECURSIVE WrapWords(_, _, _)
WrapWords(st, words, width) ==
    IF words = <<>> THEN st
    ELSE WrapWords(WrapWord(st, Head(words), width), Tail(words), width)

\* wrap_text_to_lines, with the history of its lines
WrapRun(tx, width) ==
    IF width <= 0 THEN [lines |-> <<tx>>, kinds |-> <<"end">>, line |-> <<>>]
    ELSE LET st == WrapWords([lines |-> <<>>, kinds |-> <<>>, line |-> <<>>],
                             Split(tx), width)
         IN  IF st.line # <<>>
             THEN [st EXCEPT !.lines = Append(@, st.line), !.kinds = Append(@, "end")]
             ELSE st

\* wrap_text_to_lines
WrapTextToLines(tx, width) == WrapRun(tx, width).lines

\* line 231: max_text_width
MaxTextWidth(sc) == Max(1, sc[2] - 2)

\* lines 236-239.  KeyboardHeight is the height that shows the keyboard,
\* KbRows is len(get_keyboard_layout()).
KeyboardHeight == 16
KbRows == 5
UsableLines(sc) ==
    LET kb_height == IF sc[1] >= KeyboardHeight THEN KbRows + 1 ELSE 0
    IN  Max(3, sc[1] - (kb_height + 5))

\* (variant: a space at the end of a line is never given a cell)
TableLineAbsorb(st, li, line, tx, max_text_width) ==
    LET tbl == st.tbl \o [ci \in 1..Len(line) |-> <<li, ci - 1>>]
        idx == st.idx + Len(line)
    IN  IF idx < Len(tx) /\ tx[idx + 1] = " "
        THEN [tbl |-> tbl, idx |-> idx + 1]
        ELSE [tbl |-> tbl, idx |-> idx]

\* lines 245-252, one turn of the loop over the lines: the cells of line li.
\* Lines, columns and flat indices count from 0 as in the source; entry i of
\* the table is st.tbl[i + 1], character i of the text is tx[i + 1].
TableLine(st, li, line, tx, max_text_width) ==
    LET tbl == st.tbl \o [ci \in 1..Len(line) |-> <<li, ci - 1>>]
        idx == st.idx + Len(line)
    IN  IF idx < Len(tx) /\ tx[idx + 1] = " " /\ Len(line) < max_text_width
        THEN [tbl |-> Append(tbl, <<li, Len(line)>>), idx |-> idx + 1]
        ELSE [tbl |-> tbl, idx |-> idx]

RECURSIVE TableFrom(_, _, _, _, _)
TableFrom(st, li, lines, tx, max_text_width) ==
    IF li >= Len(lines) THEN st
    ELSE TableFrom(TableLine(st, li, lines[li + 1], tx, max_text_width),
                   li + 1, lines, tx, max_text_width)

\* lines 243-252: flat_to_line
FlatToLine(lines, tx, max_text_width) ==
    TableFrom([tbl |-> <<>>, idx |-> 0], 0, lines, tx, max_text_width).tbl

\* line 254
CaretLine(tbl, lines, pos) ==
    IF pos < Len(tbl) THEN tbl[pos + 1][1]
    ELSE IF lines # <<>> THEN Len(lines) - 1 ELSE 0

\* (variant: the viewport never scrolls)
ScrollNever(caret_line, usable_lines) == 0

\* line 255
Scroll(caret_line, usable_lines) == Max(0, caret_line - usable_lines \div 2)

\* render_screen, lines 236-255: what it computes before it paints
Render(tx, ty, sc) ==
    LET run == WrapRun(tx, MaxTextWidth(sc))
        tbl == FlatToLine(run.lines, tx, MaxTextWidth(sc))
        caret_line == CaretLine(tbl, run.lines, Len(ty))
    IN  [lines |-> run.lines, kinds |-> run.kinds, flat_to_line |-> tbl,
         caret_line |-> caret_line, usable_lines |-> UsableLines(sc),
         scroll |-> Scroll(caret_line, UsableLines(sc))]

\* ------------------------------------------------------ session, the checks
\* (variant: WordCount mode compares with > instead of >=)
FinishedWordsStrict(cfg, s, ty, tx, t) ==
    IF cfg.mode = "time"
    THEN s.started # None /\ SecondsElapsed(s, t) >= cfg.seconds
    ELSE Len(ty) > Len(tx)

\* (variant: Time mode compares with > instead of >=)
FinishedTimeStrict(cfg, s, ty, tx, t) ==
    IF cfg.mode = "time"
    THEN s.started # None /\ SecondsElapsed(s, t) > cfg.seconds
    ELSE Len(ty) >= Len(tx)

\* (variant: WordCount mode completes only on an all-correct log)
FinishedWhenCorrect(cfg, s, ty, tx, t) ==
    IF cfg.mode = "time"
    THEN s.started # None /\ SecondsElapsed(s, t) >= cfg.seconds
    ELSE Len(ty) >= Len(tx) /\ s.correct >= Len(tx)

\* (variant: Time mode measures the clock, not the time since started)
FinishedSinceLaunch(cfg, s, ty, tx, t) ==
    IF cfg.mode = "time"
    THEN t >= cfg.seconds
    ELSE Len(ty) >= Len(tx)

\* typing_session.finished
Finished(cfg, s, ty, tx, t) ==
    IF cfg.mode = "time"
    THEN s.started # None /\ SecondsElapsed(s, t) >= cfg.seconds
    ELSE Len(ty) >= Len(tx)

\* (variant: the undo takes the character back from `correct` unseen)
UndoStatsNoCompare(s, ty, tx) ==
    [s EXCEPT !.correct = Max(0, @ - 1), !.typed = Max(0, @ - 1)]

\* (variant: the undo takes the character back from `typed` only)
UndoStatsTypedOnly(s, ty, tx) == [s EXCEPT !.typed = Max(0, @ - 1)]

\* the undo of lines 351-359 and 385-392
UndoStats(s, ty, tx) ==
    LET last_i == Len(ty)
        s1 == IF ty[last_i] = tx[last_i]
              THEN [s EXCEPT !.correct = Max(0, @ - 1)]
              ELSE [s EXCEPT !.mistakes = Max(0, @ - 1)]
    IN  [s1 EXCEPT !.typed = Max(0, @ - 1)]

Pop(ty) == SubSeq(ty, 1, Len(ty) - 1)

\* (variant: the comparison reads the target one position early)
CountStatsOffByOne(s, ty, tx, ch, t) ==
    LET s1 == IF s.started = None /\ StripNonEmpty(ch) THEN StatsStart(s, t) ELSE s
        at == Max(1, Len(ty))
    IN  IF Len(ty) < Len(tx)
        THEN [s1 EXCEPT !.typed = @ + 1,
                        !.correct = IF ch = tx[at] THEN @ + 1 ELSE @,
                        !.mistakes = IF ch = tx[at] THEN @ ELSE @ + 1]
        ELSE s1

\* lines 366-376: start the clock, append and count
CountStats(s, ty, tx, ch, t) ==
    LET s1 == IF s.started = None /\ StripNonEmpty(ch) THEN StatsStart(s, t) ELSE s
    IN  IF Len(ty) < Len(tx)
        THEN [s1 EXCEPT !.typed = @ + 1,
                        !.correct = IF ch = tx[Len(ty) + 1] THEN @ + 1 ELSE @,
                        !.mistakes = IF ch = tx[Len(ty) + 1] THEN @ ELSE @ + 1]
        ELSE s1

PushTyped(ty, tx, ch) == IF Len(ty) < Len(tx) THEN Append(ty, ch) ELSE ty

\* (variant: the buffer is never extended)
MustExtendNever(cfg, s, ty, tx, t) == FALSE

\* (variant: the buffer is extended one character before the cursor reaches
\* its end)
MustExtendEarly(cfg, s, ty, tx, t) ==
    cfg.mode = "time" /\ Len(ty) + 1 >= Len(tx) /\ ~Finished(cfg, s, ty, tx, t)

\* line 378
MustExtend(cfg, s, ty, tx, t) ==
    cfg.mode = "time" /\ Len(ty) >= Len(tx) /\ ~Finished(cfg, s, ty, tx, t)

\* ------------------------------------------------------------------ history
NoRt == [ph |-> "none", typed |-> <<>>, counts |-> <<0, 0, 0>>, fin |-> FALSE]

Counts(s) == <<s.typed, s.correct, s.mistakes>>

Scenario == <<"a", "b", "c", "BACKSPACE", "X">>
ScenarioText == <<"a", "b", "X">>

ScnStart(tx) == IF tx = ScenarioText THEN 0 ELSE -1

ScnStep(n, tok) ==
    IF n >= 0 /\ n < Len(Scenario) /\ Scenario[n + 1] = tok THEN n + 1 ELSE -1

ScnToken(k) ==
    IF k \in BackspaceChars \cup BackspaceCodes THEN "BACKSPACE"
    ELSE IF k \in EnterKeys THEN " "
    ELSE k

RtStep(k) ==
    IF k \in BackspaceChars \cup BackspaceCodes /\ rt.ph = "p"
    THEN [rt EXCEPT !.ph = "pb"]
    ELSE NoRt

\* -------------------------------------------------------------------- Init
Configs ==
    { [mode |-> "time", seconds |-> s, words |-> 1, seed |-> sd] :
        s \in 1..MaxSeconds, sd \in {None, 1} }
    \cup
    { [mode |-> "words", seconds |-> 1, words |-> w, seed |-> sd] :
        w \in 1..MaxWords, sd \in {None, 1} }

\* lines 320-324: a new session
\* (variant: the restarted session keeps the text of the one before)
StartSessionKeepText(cfg, strm) ==
    /\ text' = text
    /\ text0' = text
    /\ scn' = ScnStart(text)
    /\ typed' = <<>>
    /\ stats' = NewStats
    /\ pc' = "typing"
    /\ plain' = 0
    /\ rt' = NoRt

StartSession(cfg, strm) ==
    /\ \E src \in WordSources(cfg, strm) :
          /\ text' = BuildText(src, cfg)
          /\ text0' = BuildText(src, cfg)
          /\ scn' = ScnStart(BuildText(src, cfg))
    /\ typed' = <<>>
    /\ stats' = NewStats
    /\ pc' = "typing"
    /\ plain' = 0
    /\ rt' = NoRt

Init ==
    /\ config \in Configs
    /\ stream \in IF config.seed = None THEN {<<>>}
                  ELSE [1..StreamLen(config) -> DEFAULT_WORDS]
    /\ \E src \in WordSources(config, stream) :
          /\ text = BuildText(src, config)
          /\ scn = ScnStart(text)
    /\ typed = <<>>
    /\ stats = NewStats
    /\ pc = "typing"
    /\ ret = NewStats
    /\ now = 0
    /\ plain = 0
    /\ ev = "start"
    /\ rt = NoRt
    /\ text0 = text
    /\ scr = NoScreen
    /\ view = NoView

\* ----------------------------------------------------------------- actions
\* time passes
Tick ==
    /\ now < MaxTime
    /\ now' = now + 1
    /\ UNCHANGED <<text0, scr, view, config, stream, text, typed, stats, pc, ret,
                   plain, ev, rt, scn>>

\* (variant: a session that ran over is stopped at its deadline)
EndCheckAtDeadline(s, ty, tx) ==
    /\ now' = now
    /\ IF Finished(config, s, ty, tx, now)
       THEN /\ stats' = StatsStop(s, IF config.mode = "time" /\ s.started # None
                                          /\ now > s.started + config.seconds
                                      THEN s.started + config.seconds ELSE now)
            /\ pc' = "results"
       ELSE stats' = s /\ pc' = "typing"

\* lines 396-398: the end condition.  A handler runs between two ticks of
\* the clock: every time.time() it makes reads `now`.
EndCheck(s, ty, tx) ==
    /\ now' = now
    /\ IF Finished(config, s, ty, tx, now)
       THEN stats' = StatsStop(s, now) /\ pc' = "results"
       ELSE stats' = s /\ pc' = "typing"

\* line 336: "\t", restart
KeyTab ==
    /\ pc = "typing"
    /\ ret' = NewStats
    /\ pc' = "returned"
    /\ ev' = "tab"
    /\ rt' = NoRt
    /\ scn' = -1
    /\ UNCHANGED <<text0, scr, view, config, stream, text, typed, stats, now, plain>>

\* (variant: ESC returns the stats without stats.stop())
KeyEscNoStop(k) ==
    /\ pc = "typing"
    /\ k # TabKey /\ k \in {EscKey, KeyExit}
    /\ ret' = stats
    /\ pc' = "returned"
    /\ ev' = "esc"
    /\ rt' = NoRt
    /\ scn' = -1
    /\ UNCHANGED <<text0, scr, view, config, stream, text, typed, stats, now, plain>>

\* lines 339-341: ESC
KeyEsc(k) ==
    /\ pc = "typing"
    /\ k # TabKey /\ k \in {EscKey, KeyExit}
    /\ stats' = StatsStop(stats, now)
    /\ ret' = StatsStop(stats, now)
    /\ pc' = "returned"
    /\ ev' = "esc"
    /\ rt' = NoRt
    /\ scn' = -1
    /\ UNCHANGED <<text0, scr, view, config, stream, text, typed, now, plain>>

\* (variant: no `continue`, KEY_RESIZE falls through to the end check)
KeyResizeEvChecks ==
    /\ pc = "typing"
    /\ EndCheck(stats, typed, text)
    /\ ev' = "resize"
    /\ rt' = NoRt
    /\ scn' = -1
    /\ UNCHANGED <<text0, scr, view, config, stream, text, typed, ret, plain>>

\* lines 342-344: KEY_RESIZE
KeyResizeEv ==
    /\ pc = "typing"
    /\ ev' = "resize"
    /\ rt' = NoRt
    /\ scn' = -1
    /\ UNCHANGED <<text0, scr, view, config, stream, text, typed, stats, pc, ret, now,
                   plain>>

\* (variant: no `if typed:` guard, typed[-1] raises on an empty log)
KeyBackspaceCharUnguarded(k) ==
    /\ pc = "typing"
    /\ IsStr(k) /\ k \in BackspaceChars
    /\ IF Len(typed) > 0
       THEN /\ stats' = UndoStats(stats, typed, text)
            /\ typed' = Pop(typed)
            /\ ev' = "backspace"
            /\ pc' = pc
       ELSE /\ UNCHANGED <<stats, typed>>
            /\ ev' = "bs_empty"
            /\ pc' = "error"
    /\ plain' = -1
    /\ rt' = RtStep(k)
    /\ scn' = ScnStep(scn, ScnToken(k))
    /\ UNCHANGED <<text0, scr, view, config, stream, text, ret, now>>

\* lines 350-362: the backspace character; `continue` skips the end check
KeyBackspaceChar(k) ==
    /\ pc = "typing"
    /\ IsStr(k) /\ k \in BackspaceChars
    /\ IF Len(typed) > 0
       THEN /\ stats' = UndoStats(stats, typed, text)
            /\ typed' = Pop(typed)
            /\ ev' = "backspace"
       ELSE /\ UNCHANGED <<stats, typed>>
            /\ ev' = "bs_empty"
    /\ plain' = -1
    /\ rt' = RtStep(k)
    /\ scn' = ScnStep(scn, ScnToken(k))
    /\ UNCHANGED <<text0, scr, view, config, stream, text, pc, ret, now>>

\* lines 346-349 and 365-382, then the end check; keys are typed while
\* TypedLog is shorter than `limit`
KeyPrintableUpTo(k, limit) ==
    /\ pc = "typing"
    /\ IsStr(k) /\ EnterAsSpace(k) \notin BackspaceChars /\ IsPrintable(EnterAsSpace(k))
    /\ Len(typed) < limit
    /\ LET ch == EnterAsSpace(k)
           s1 == CountStats(stats, typed, text, ch, now)
           ty1 == PushTyped(typed, text, ch)
       IN  /\ typed' = ty1
           /\ IF MustExtend(config, s1, ty1, text, now)
              THEN \E src \in WordSources(config, stream) :
                      /\ text' = text \o Extension(src)
                      /\ EndCheck(s1, ty1, text \o Extension(src))
              ELSE /\ text' = text
                   /\ EndCheck(s1, ty1, text)
           /\ rt' = [ph |-> "p", typed |-> typed, counts |-> Counts(stats),
                     fin |-> Finished(config, s1, ty1, text, now)]
           /\ ev' = "printable"
           /\ scn' = ScnStep(scn, ScnToken(k))
    /\ plain' = IF plain >= 0 THEN plain + 1 ELSE plain
    /\ UNCHANGED <<text0, scr, view, config, stream, ret>>

KeyPrintable(k) == KeyPrintableUpTo(k, MaxTyped)

\* a string that is neither backspace nor printable: only the end check
KeyOtherStr(k) ==
    /\ pc = "typing"
    /\ k \notin {TabKey, EscKey}
    /\ IsStr(k) /\ EnterAsSpace(k) \notin BackspaceChars /\ ~IsPrintable(EnterAsSpace(k))
    /\ EndCheck(stats, typed, text)
    /\ ev' = "other"
    /\ rt' = NoRt
    /\ scn' = -1
    /\ UNCHANGED <<text0, scr, view, config, stream, text, typed, ret, plain>>

\* lines 384-394: the backspace key code, then the end check
KeyBackspaceCode(k) ==
    /\ pc = "typing"
    /\ k \notin {KeyExit, KeyResize}
    /\ ~IsStr(k) /\ k \in BackspaceCodes
    /\ IF Len(typed) > 0
       THEN /\ typed' = Pop(typed)
            /\ ev' = "backspace"
            /\ EndCheck(UndoStats(stats, typed, text), Pop(typed), text)
       ELSE /\ UNCHANGED typed
            /\ ev' = "bs_empty"
            /\ EndCheck(stats, typed, text)
    /\ plain' = -1
    /\ rt' = RtStep(k)
    /\ scn' = ScnStep(scn, ScnToken(k))
    /\ UNCHANGED <<text0, scr, view, config, stream, text, ret>>

\* any other key code: only the end check
KeyOtherCode(k) ==
    /\ pc = "typing"
    /\ k \notin {KeyExit, KeyResize}
    /\ ~IsStr(k) /\ k \notin BackspaceCodes
    /\ EndCheck(stats, typed, text)
    /\ ev' = "other"
    /\ rt' = NoRt
    /\ scn' = -1
    /\ UNCHANGED <<text0, scr, view, config, stream, text, typed, ret, plain>>

\* lines 408-421, the results prompt: r, R or "\t" returns Stats()
PromptRestart(k) ==
    /\ pc = "results"
    /\ (IsStr(k) /\ k \in RestartLetters) \/ k = TabKey
    /\ ret' = NewStats
    /\ pc' = "returned"
    /\ ev' = "prompt_restart"
    /\ rt' = NoRt
    /\ scn' = ScnStep(scn, ScnToken(k))
    /\ UNCHANGED <<text0, scr, view, config, stream, text, typed, stats, now, plain>>

\* the results prompt: q, Q, ESC or KEY_EXIT returns stats
PromptQuit(k) ==
    /\ pc = "results"
    /\ ~((IsStr(k) /\ k \in RestartLetters) \/ k = TabKey)
    /\ (IsStr(k) /\ k \in QuitLetters) \/ k \in {EscKey, KeyExit}
    /\ ret' = stats
    /\ pc' = "returned"
    /\ ev' = "prompt_quit"
    /\ rt' = NoRt
    /\ scn' = ScnStep(scn, ScnToken(k))
    /\ UNCHANGED <<text0, scr, view, config, stream, text, typed, stats, now, plain>>

\* (variant: the results prompt still undoes on a backspace)
PromptOtherUndo(k) ==
    /\ pc = "results"
    /\ k \notin RestartLetters \cup QuitLetters \cup {TabKey, EscKey, KeyExit}
    /\ IF k \in BackspaceChars \cup BackspaceCodes /\ Len(typed) > 0
       THEN stats' = UndoStats(stats, typed, text) /\ typed' = Pop(typed)
       ELSE UNCHANGED <<stats, typed>>
    /\ ev' = "prompt_other"
    /\ rt' = RtStep(k)
    /\ scn' = ScnStep(scn, ScnToken(k))
    /\ UNCHANGED <<text0, scr, view, config, stream, text, pc, ret, now, plain>>

\* the results prompt: every other key is read and dropped
PromptOther(k) ==
    /\ pc = "results"
    /\ k \notin RestartLetters \cup QuitLetters \cup {TabKey, EscKey, KeyExit}
    /\ ev' = "prompt_other"
    /\ rt' = RtStep(k)
    /\ scn' = ScnStep(scn, ScnToken(k))
    /\ UNCHANGED <<text0, scr, view, config, stream, text, typed, stats, pc, ret, now,
                   plain>>

\* run_curses._wrapped, lines 533-542: restart on an empty Stats, else leave
WrappedRestart ==
    /\ pc = "returned"
    /\ ret.started = None /\ ret.ended = None
    /\ StartSession(config, stream)
    /\ ev' = "restart"
    /\ UNCHANGED <<scr, view, config, stream, ret, now>>

WrappedExit ==
    /\ pc = "returned"
    /\ ~(ret.started = None /\ ret.ended = None)
    /\ pc' = "exit"
    /\ UNCHANGED <<text0, scr, view, config, stream, text, typed, stats, ret, now,
                   plain, ev, rt, scn>>

Next ==
    \/ Tick
    \/ KeyTab
    \/ \E k \in {EscKey, KeyExit} : KeyEsc(k)
    \/ KeyResizeEv
    \/ \E k \in BackspaceChars : KeyBackspaceChar(k)
    \/ \E k \in TypedKeys \cup EnterKeys : KeyPrintable(k)
    \/ \E k \in OtherStrKeys : KeyOtherStr(k)
    \/ \E k \in BackspaceCodes : KeyBackspaceCode(k)
    \/ \E k \in OtherCodes : KeyOtherCode(k)
    \/ \E k \in RestartLetters \cup {TabKey} : PromptRestart(k)
    \/ \E k \in QuitLetters \cup {EscKey, KeyExit} : PromptQuit(k)
    \/ \E k \in TypedKeys \cup EnterKeys \cup BackspaceChars \cup BackspaceCodes
                  \cup OtherStrKeys \cup OtherCodes \cup {KeyResize} : PromptOther(k)
    \/ WrappedRestart
    \/ WrappedExit

Spec == Init /\ [][Next]_vars

\* The clock always advances; nothing obliges the user to press a key.
SpecLive == Init /\ [][Next]_vars /\ WF_vars(Tick)

\* The scenario of the one-word target "abX": WordCount mode with words = 1
\* (a Time-mode buffer holds at least EstWords words), a source whose first
\* word is "abX", and the keys 'c' and 'X' beside those of Spec.
ScenarioKeys == {"c", "X"}

InitScenario ==
    /\ config = [mode |-> "words", seconds |-> 1, words |-> 1, seed |-> 1]
    /\ stream = <<ScenarioText>>
    /\ text = BuildText(stream, config)
    /\ scn = ScnStart(text)
    /\ typed = <<>>
    /\ stats = NewStats
    /\ pc = "typing"
    /\ ret = NewStats
    /\ now = 0
    /\ plain = 0
    /\ ev = "start"
    /\ rt = NoRt
    /\ text0 = text
    /\ scr = NoScreen
    /\ view = NoView

NextScenario ==
    \/ Next
    \/ \E k \in ScenarioKeys : KeyPrintable(k)
    \/ \E k \in ScenarioKeys : PromptOther(k)

SpecScenario == InitScenario /\ [][NextScenario]_vars

\* Time mode with a fixed seed, the stream followed past the words of the
\* initial text: random.Random(seed) yields EstWords words to build_text and
\* would yield ExtendWords more to a source that went on drawing.
ExtendKeys == {"a"}

InitExtend ==
    /\ config = [mode |-> "time", seconds |-> 1, words |-> 1, seed |-> 1]
    /\ stream \in [1..(EstWords(config) + ExtendWords) -> DEFAULT_WORDS]
    /\ text = BuildText(stream, config)
    /\ scn = ScnStart(text)
    /\ typed = <<>>
    /\ stats = NewStats
    /\ pc = "typing"
    /\ ret = NewStats
    /\ now = 0
    /\ plain = 0
    /\ ev = "start"
    /\ rt = NoRt
    /\ text0 = text
    /\ scr = NoScreen
    /\ view = NoView

\* The user types 'a', takes characters back, restarts with Tab.
NextExtend ==
    \/ Tick
    \/ \E k \in ExtendKeys : KeyPrintableUpTo(k, MaxExtendTyped)
    \/ \E k \in BackspaceCodes : KeyBackspaceCode(k)
    \/ KeyTab
    \/ WrappedRestart

SpecExtend == InitExtend /\ [][NextExtend]_vars

\* The layout: the words of the targets, the terminal sizes (8 rows and
\* fewer all leave the minimum of 3 usable lines; max_text_width is
\* width - 2).
LayoutWords == { <<"a">>, <<"a", "b">>, <<"c", "d">>, <<"a", "b", "c", "d">> }
LayoutTexts ==
    { Join(ws) : ws \in UNION { [1..n -> LayoutWords] : n \in 1..MaxLayoutWords } }
Heights == (8..MaxHeight) \cup {KeyboardHeight}
Screens == Heights \X (3..(MaxWidth + 2))

\* A WordCount session on one of the layout texts, first render (line 332).
InitLayout ==
    /\ text \in LayoutTexts
    /\ config = [mode |-> "words", seconds |-> 1, words |-> Len(Split(text)),
                 seed |-> 1]
    /\ stream = Split(text)
    /\ scn = ScnStart(text)
    /\ typed = <<>>
    /\ stats = NewStats
    /\ pc = "typing"
    /\ ret = NewStats
    /\ now = 0
    /\ plain = 0
    /\ ev = "start"
    /\ rt = NoRt
    /\ text0 = text
    /\ scr \in Screens
    /\ view = Render(text, typed, scr)

\* The loop as render_screen sees it: a key moves the cursor one character
\* on (line 382; line 400 with the cursor at the end), ...
RenderKey ==
    /\ Len(typed) < Len(text)
    /\ typed' = Append(typed, text[Len(typed) + 1])
    /\ view' = Render(text, typed', scr)
    /\ ev' = "printable"
    /\ UNCHANGED <<text0, config, stream, text, stats, pc, ret, now, plain, rt, scn, scr>>

\* ... a backspace moves it one back (lines 361, 394), ...
RenderBackspace ==
    /\ Len(typed) > 0
    /\ typed' = Pop(typed)
    /\ view' = Render(text, typed', scr)
    /\ ev' = "backspace"
    /\ UNCHANGED <<text0, config, stream, text, stats, pc, ret, now, plain, rt, scn, scr>>

\* ... and KEY_RESIZE renders at the new size (line 343).
RenderResize ==
    /\ \E sc \in Screens \ {scr} :
          /\ scr' = sc
          /\ view' = Render(text, typed, sc)
    /\ ev' = "resize"
    /\ UNCHANGED <<text0, config, stream, text, typed, stats, pc, ret, now, plain, rt, scn>>

NextLayout == RenderKey \/ RenderBackspace \/ RenderResize

SpecLayout == InitLayout /\ [][NextLayout]_vars

\* ------------------------------------------------------------------ claims
HasNonSpace(ty) == \E i \in 1..Len(ty) : ty[i] # " "
AllSpaces(ty) == \A i \in 1..Len(ty) : ty[i] = " "
Deadline == config.mode = "time" /\ stats.started # None
            /\ now - stats.started >= config.seconds

\* C1: in every state the loop settles in, typed == correct + mistakes ==
\* len(TypedLog), in both modes and for any interleaving of printable and
\* backspace events; while no backspace event was handled, typed is the
\* number of printable events handled.
C1_CountersAgree ==
    /\ stats.typed = stats.correct + stats.mistakes
    /\ stats.typed = Len(typed)
    /\ plain >= 0 => stats.typed = plain

C1_Witness ==
    /\ plain = -1 /\ ev = "printable"
    /\ Len(typed) >= 2 /\ stats.mistakes >= 1 /\ stats.correct >= 1

\* C2 as stated: a backspace right after a printable event applied to a
\* session that was not Finished restores TypedLog, typed, correct, mistakes.
C2_RoundTripAlways ==
    rt.ph = "pb" => (typed = rt.typed /\ Counts(stats) = rt.counts)

\* C2 as amended: the same, for a printable event that did not finish the
\* session (a backspace after a finishing event is read by the results
\* prompt and dropped).
C2_RoundTrip ==
    (rt.ph = "pb" /\ ~rt.fin) => (typed = rt.typed /\ Counts(stats) = rt.counts)

C2_Witness ==
    /\ rt.ph = "pb" /\ ~rt.fin /\ pc = "typing"
    /\ Len(rt.typed) >= 1 /\ stats.mistakes >= 1

\* C3: on target "abX" the keys 'a', 'b', 'c', backspace, 'X' end with
\* typed = 3, correct = 2, mistakes = 1.
C3_Scenario == scn = Len(Scenario) => Counts(stats) = <<3, 2, 1>>

C3_Witness == scn = Len(Scenario) /\ text = ScenarioText

\* C4 as stated: a non-empty TypedLog means started is set.
C4_StartedAfterAnyKey == Len(typed) > 0 => stats.started # None

\* C4 as amended: a TypedLog that holds a character other than a space means
\* started is set; a space typed first leaves it unset.
C4_StartedAfterNonSpace == HasNonSpace(typed) => stats.started # None

C4_Witness ==
    /\ ev = "printable" /\ Len(typed) = 2
    /\ typed[1] = " " /\ typed[2] # " " /\ stats.started = now /\ now > 0

\* C5: in Time mode an accepted printable or backspace event handled when
\* started is set and now - started >= config.seconds leaves the session
\* Finished.
C5_CompletionAfterAccepted ==
    [][(Deadline /\ pc = "typing" /\ typed' # typed)
          => (pc' = "results" /\ stats'.ended # None)]_vars

\* C6 as stated: in Time mode, once started is set and config.seconds have
\* elapsed, the session is eventually Finished, key event or not.
C6_EventuallyFinished ==
    (Deadline /\ pc = "typing") ~> (stats.ended # None)

\* C6 as amended: the passage of time alone never finishes a session (the
\* loop blocks in get_wch); past the deadline the next printable key event
\* finishes it, at the time of that event.
C6_FinishedOnlyOnKey ==
    [][/\ now' # now => (stats' = stats /\ pc' = pc)
       /\ (Deadline /\ pc = "typing" /\ Len(typed') > Len(typed))
             => (pc' = "results" /\ stats'.ended = now)]_vars

C6_Witness ==
    Deadline /\ pc = "typing" /\ stats.ended = None /\ now - stats.started > config.seconds

\* C7: in WordCount mode the session is Finished by completion exactly when
\* len(TypedLog) == len(TargetText), whatever was typed; len(TargetText)
\* printable events without a backspace finish it on the last one.
C7_WordsComplete ==
    config.mode = "words" =>
        /\ pc = "typing" => (Len(typed) < Len(text) /\ stats.ended = None)
        /\ pc = "results" => (Len(typed) = Len(text) /\ stats.ended # None)
        /\ (plain >= 0 /\ pc \in {"typing", "results"})
              => (pc = "results" <=> plain = Len(text))

C7_Witness ==
    /\ config.mode = "words" /\ pc = "results"
    /\ plain = Len(text) /\ stats.correct = 0 /\ Len(text) > 1

\* C8 as stated: when the completion check has set ended, started is set and
\* ended >= started, in either mode.
C8_CompletionImpliesStarted ==
    pc = "results" => (stats.started # None /\ stats.ended >= stats.started)

\* C8 as amended: ended >= started whenever both are set; completion leaves
\* started set in Time mode, and in WordCount mode unless every typed
\* character is a space.
C8_EndedAfterStarted ==
    /\ (stats.started # None /\ stats.ended # None) => stats.ended >= stats.started
    /\ pc = "results" =>
          /\ stats.ended # None
          /\ stats.started = None => (config.mode = "words" /\ AllSpaces(typed))

C8_Witness ==
    /\ pc = "results" /\ config.mode = "time"
    /\ stats.started > 0 /\ stats.ended > stats.started

\* C9: once ended is set, no step but the restart that builds a new session
\* changes TargetText, TypedLog or the Stats, and the loop never reads a
\* typing event of that session again.
C9_FinishedIsTerminal ==
    [][stats.ended # None
          => \/ UNCHANGED <<config, text, typed, stats>> /\ pc' # "typing"
             \/ /\ pc = "returned" /\ ret = NewStats
                /\ typed' = <<>> /\ stats' = NewStats /\ pc' = "typing"]_vars

C9_Witness ==
    /\ ev = "prompt_other" /\ pc = "results" /\ Len(typed) > 0

\* C10: len(TypedLog) <= len(TargetText) always; a backspace on an empty
\* TypedLog and a printable character at len(TypedLog) == len(TargetText)
\* change nothing of the session and raise nothing.
C10_OutOfRangeNoOps ==
    /\ [](Len(typed) <= Len(text))
    /\ [][/\ (pc = "typing" /\ Len(typed) = 0 /\ ev' \in {"backspace", "bs_empty"})
             => (UNCHANGED <<text, typed>> /\ Counts(stats') = Counts(stats)
                 /\ pc' \in {"typing", "results"})
          /\ (Len(typed) = Len(text) /\ ev' \in {"printable", "prompt_other"})
             => (UNCHANGED <<text, typed>> /\ Counts(stats') = Counts(stats))]_vars

C10_Witness == ev = "bs_empty" /\ pc = "typing" /\ typed = <<>> /\ text # <<>>

IsPrefix(a, b) == Len(a) <= Len(b) /\ SubSeq(b, 1, Len(a)) = a
NonEmptyWords(tx) == \A i \in 1..Len(Split(tx)) : Split(tx)[i] # <<>>

\* C11: TargetText is append-only: across every step of a session the
\* previous TargetText is a prefix of the new one; in WordCount mode it
\* holds exactly config.words words and never changes after session start;
\* in Time mode it changes only by an extension (a space and more words)
\* appended when the typed cursor reaches its end.
C11_AppendOnly ==
    /\ [](config.mode = "words"
            => (Len(Split(text)) = config.words /\ NonEmptyWords(text)))
    /\ [][pc # "returned" =>
            /\ IsPrefix(text, text')
            /\ config.mode = "words" => text' = text
            /\ text' # text =>
                  /\ config.mode = "time" /\ pc = "typing"
                  /\ Len(typed') = Len(text) /\ Len(typed) < Len(typed')
                  /\ text'[Len(text) + 1] = " "
                  /\ NonEmptyWords(text')
                  /\ Len(Split(text')) = Len(Split(text)) + ExtendWords]_vars

C11_Witness ==
    /\ config.mode = "time" /\ pc = "typing" /\ ev = "printable"
    /\ Len(typed) = MaxTyped
    /\ Len(Split(text)) = EstWords(config) + ExtendWords

\* C12: in every reachable state 0 <= correct <= typed and 0 <= mistakes, so
\* accuracy() lies in [0, 1] and raw_wpm() is never negative.
C12_CountersInRange ==
    /\ 0 <= stats.correct /\ stats.correct <= stats.typed
    /\ 0 <= stats.mistakes
    /\ Accuracy(stats)[2] > 0
    /\ 0 <= Accuracy(stats)[1] /\ Accuracy(stats)[1] <= Accuracy(stats)[2]
    /\ RawWpm(stats, now)[2] > 0 /\ RawWpm(stats, now)[1] >= 0

C12_Witness ==
    /\ ev = "backspace" /\ stats.typed = 2
    /\ stats.correct = 1 /\ stats.mistakes = 1
    /\ RawWpm(stats, now)[1] > 0 /\ SecondsElapsed(stats, now) > 0

\* the cell of flat index i, and whether it is the cell of character i
Cell(i) == view.flat_to_line[i + 1]
IsCellOf(cell, i) ==
    LET line == view.lines[cell[1] + 1]
    IN  \/ cell[2] < Len(line) /\ line[cell[2] + 1] = text[i + 1]
        \/ text[i + 1] = " " /\ cell[2] = Len(line)

\* C13: entry i of the flat-index coordinate table is the screen cell of
\* text[i], for every target text, every width >= 1 and every index i the
\* table covers: lines[line][col] == text[i], or text[i] is a space placed at
\* col == len(lines[line]); so the overlay of typed index i and the caret of
\* cursor position i are painted on the cell of text[i].
C13_TableIsCellOfText ==
    \A i \in 0..(Len(view.flat_to_line) - 1) : IsCellOf(Cell(i), i)

\* the lines joined again: a space after a line that word wrapping closed,
\* nothing after a chunk of an oversized word or after the trailing line
RECURSIVE Rejoin(_, _)
Rejoin(lines, kinds) ==
    IF lines = <<>> THEN <<>>
    ELSE Head(lines) \o (IF Head(kinds) = "wrap" THEN <<" ">> ELSE <<>>)
             \o Rejoin(Tail(lines), Tail(kinds))

HasKind(k) == \E i \in 1..Len(view.kinds) : view.kinds[i] = k

\* C14: for every text of non-empty words joined by single spaces and every
\* width >= 1, the lines of wrap(text, width) joined again (one space at a
\* boundary made by word wrapping, nothing at a boundary made by splitting
\* an oversized word) are the text: no character invented, duplicated or
\* lost but the boundary spaces.
C14_RejoinIsText ==
    /\ Len(view.kinds) = Len(view.lines)
    /\ view.lines = WrapTextToLines(text, MaxTextWidth(scr))
    /\ Rejoin(view.lines, view.kinds) = text

C14_Witness ==
    /\ ev = "resize" /\ MaxTextWidth(scr) >= 2
    /\ HasKind("wrap") /\ HasKind("split") /\ Len(view.lines) >= 4

LayoutScenarioText == <<"a", "b", " ", "c", "d">>
LayoutScenario == text = LayoutScenarioText /\ MaxTextWidth(scr) = 4

\* C15 as stated: text "ab cd" at width 4 wraps to the lines "ab", "cd" and
\* the space at flat index 2 is absorbed: the table gives it no cell.
C15_SpaceAbsorbed ==
    LayoutScenario =>
        /\ view.lines = << <<"a", "b">>, <<"c", "d">> >>
        /\ Len(view.flat_to_line) = Len(text) - 1
        /\ \A i \in 1..Len(view.flat_to_line) : view.flat_to_line[i] # <<0, 2>>

\* C15 as amended: text "ab cd" at width 4 wraps to the lines "ab", "cd" and
\* the space at flat index 2 is given the cell just after "ab", line 0
\* column 2; every index has its cell.
C15_SpaceKept ==
    LayoutScenario =>
        /\ view.lines = << <<"a", "b">>, <<"c", "d">> >>
        /\ view.flat_to_line = << <<0, 0>>, <<0, 1>>, <<0, 2>>, <<1, 0>>, <<1, 1>> >>

C15_Witness == LayoutScenario /\ ev = "printable" /\ Len(typed) = 3

\* the words of the text that are longer than the width, and the chunks the
\* text is cut into for them
Oversized(width) == { i \in 1..Len(Split(text)) : Len(Split(text)[i]) > width }
RECURSIVE SumChunks(_, _)
SumChunks(words, width) ==
    IF words = <<>> THEN 0
    ELSE Len(Chunks(Head(words), width)) + SumChunks(Tail(words), width)
NoSpace(line) == \A i \in 1..Len(line) : line[i] # " "

\* C18: for every text of non-empty words joined by single spaces and every
\* width >= 1, every line of the wrapper is non-empty and at most width
\* characters long; a word longer than width is emitted as successive chunks
\* of exactly width characters, only its remainder may be shorter and may be
\* joined by following words.
C18_LinesFitWidth ==
    LET width == MaxTextWidth(scr)
    IN  /\ \A j \in 1..Len(view.lines) :
              /\ view.lines[j] # <<>>
              /\ Len(view.lines[j]) <= width
              /\ view.kinds[j] = "split"
                    => (Len(view.lines[j]) = width /\ NoSpace(view.lines[j]))
        /\ Cardinality({ j \in 1..Len(view.lines) : view.kinds[j] = "split" })
              = SumChunks(Split(text), width)
        /\ \A i \in Oversized(width) :
              /\ Len(Chunks(Split(text)[i], width))
                    = (Len(Split(text)[i]) - 1) \div width
              /\ Remainder(Split(text)[i], width) # <<>>
              /\ Len(Remainder(Split(text)[i], width)) <= width

C18_Witness ==
    /\ ev = "resize" /\ MaxTextWidth(scr) = 3 /\ Oversized(3) # {}
    /\ \E j \in 1..Len(view.lines) :
          /\ j > 1 /\ view.kinds[j - 1] = "split"
          /\ ~NoSpace(view.lines[j])

\* C19: for every cursor position and every viewport height, scroll =
\* max(0, caret_line - usable_lines div 2) keeps the caret's line inside the
\* visible band: 0 <= caret_line - scroll < usable_lines.
C19_CaretLineVisible ==
    /\ view.caret_line = CaretLine(view.flat_to_line, view.lines, Len(typed))
    /\ view.usable_lines = UsableLines(scr)
    /\ view.scroll = Scroll(view.caret_line, view.usable_lines)
    /\ 0 <= view.caret_line - view.scroll
    /\ view.caret_line - view.scroll < view.usable_lines

C19_Witness ==
    /\ ev = "printable" /\ view.scroll > 0
    /\ view.caret_line >= view.usable_lines
    /\ Len(typed) < Len(text)

\* the texts a WordSource(config) made now can give a new session
FreshTexts == { BuildText(src, config) : src \in WordSources(config, stream) }

\* C16: a restart (Tab during a session, r, R or Tab at the results prompt)
\* always begins a session equal to a freshly constructed one of the same
\* configuration: empty TypedLog, typed = correct = mistakes = 0, started and
\* ended unset, a freshly built TargetText (no extension of the previous
\* session); with a fixed seed the new TargetText is the text the previous
\* session started with.
C16_RestartIsFresh ==
    [][/\ ev' \in {"tab", "prompt_restart"} => (pc' = "returned" /\ ret' = NewStats)
       /\ (pc = "returned" /\ ret = NewStats) => pc' \in {"returned", "typing"}
       /\ (pc = "returned" /\ pc' = "typing") =>
             /\ ret = NewStats /\ config' = config
             /\ typed' = <<>> /\ stats' = NewStats
             /\ text' \in FreshTexts
             /\ config.seed # None => text' = text0]_vars

C16_Witness ==
    /\ ev = "restart" /\ pc = "typing" /\ typed = <<>> /\ stats = NewStats
    /\ config.mode = "time" /\ config.seed # None /\ now > 0

\* C17: a resize event leaves the whole session state unchanged (TypedLog,
\* typed, correct, mistakes, TargetText, started, ended), in every state and
\* both modes: in the typing loop, where it only renders again, and at the
\* results prompt.
C17_ResizeKeepsSession ==
    [][(KeyResizeEv \/ PromptOther(KeyResize))
          => UNCHANGED <<config, text, typed, stats, pc, ret>>]_vars

C17_Witness ==
    /\ ev = "resize" /\ pc = "typing" /\ Deadline
    /\ Len(typed) > 0 /\ stats.ended = None

\* C20: whenever the loop waits for a typing event, len(TypedLog) <
\* len(TargetText), in both modes; so every printable key event delivered to
\* the typing loop is accepted (pushed and counted), the branch that drops a
\* character typed past the end is never taken.
C20_CursorBeforeEnd ==
    /\ [](pc = "typing" => Len(typed) < Len(text))
    /\ [][(\E k \in TypedKeys \cup EnterKeys : KeyPrintable(k))
             => /\ Len(typed') = Len(typed) + 1
                /\ stats'.typed = stats.typed + 1
                /\ pc' = "typing" => Len(typed') < Len(text')]_vars

C20_Witness ==
    /\ ev = "printable" /\ pc = "typing" /\ config.mode = "time"
    /\ Len(typed) = Len(text0) /\ Len(text) > Len(text0)

\* the words of `tx` from position n + 1 on repeat the first ExtendWords
\* words of `first`
RepeatsFirstWords(tx, first, n) ==
    LET w == Split(tx)
        w0 == Split(first)
    IN  /\ Len(w) >= n
        /\ (Len(w) - n) % ExtendWords = 0
        /\ \A i \in (n + 1)..Len(w) : w[i] = w0[((i - n - 1) % ExtendWords) + 1]

\* C21: in Time mode with a fixed seed, every buffer extension appends a
\* single space followed by the same ExtendWords (50) words, the first
\* ExtendWords words of the session's initial TargetText: the extension
\* draws from a source seeded anew from the configuration, not from the
\* continuation of the stream that produced the initial text.
C21_ExtensionRepeatsStart ==
    (config.mode = "time" /\ config.seed # None) =>
        /\ IsPrefix(text0, text)
        /\ Len(Split(text0)) = EstWords(config)
        /\ EstWords(config) >= ExtendWords
        /\ NonEmptyWords(text)
        /\ RepeatsFirstWords(text, text0, EstWords(config))

C21_Witness ==
    /\ config.mode = "time" /\ config.seed # None /\ pc = "typing"
    /\ ev = "printable"
    /\ Len(Split(text)) = EstWords(config) + 2 * ExtendWords
    /\ SubSeq(stream, EstWords(config) + 1, Len(stream))
          # SubSeq(stream, 1, ExtendWords)

\* C22: in Time mode at most one printable keystroke is pushed onto TypedLog
\* when started is set and now - started >= config.seconds: the session is
\* Finished right after it (and a Finished session pushes nothing more); the
\* keystroke is counted in typed and in correct or mistakes, and ended is
\* the time of that keystroke, however far past the deadline.
C22_OneLateKeystroke ==
    [][/\ (Deadline /\ pc = "typing" /\ Len(typed') > Len(typed)) =>
             /\ Len(typed') = Len(typed) + 1
             /\ pc' = "results" /\ stats'.ended = now
             /\ stats'.started = stats.started
             /\ stats'.typed = stats.typed + 1
             /\ stats'.correct + stats'.mistakes
                   = stats.correct + stats.mistakes + 1
             /\ stats'.correct >= stats.correct
             /\ stats'.mistakes >= stats.mistakes
             /\ SecondsElapsed(stats', now') = now - stats.started
       /\ (config.mode = "time" /\ stats.ended # None)
             => (typed' = typed \/ (pc = "returned" /\ typed' = <<>>))]_vars

C22_Witness ==
    /\ config.mode = "time" /\ pc = "results" /\ ev = "printable"
    /\ stats.typed >= 2 /\ stats.started # None
    /\ stats.ended - stats.started > config.seconds

RestartRequested == ev \in {"tab", "prompt_restart"}
QuitRequested == ev \in {"esc", "prompt_quit"}

\* C23: the signal between typing_session and the outer loop is unambiguous:
\* the returned Stats has started and ended both unset exactly when restart
\* was requested; every quit (Escape at any time, also before the first
\* keystroke, q or Escape at the results prompt) returns a Stats with ended
\* set; a quit ends the outer loop and starts no session, a restart never
\* ends it.
C23_SignalUnambiguous ==
    /\ [](pc = "returned" =>
            /\ RestartRequested \/ QuitRequested
            /\ RestartRequested <=> (ret.started = None /\ ret.ended = None)
            /\ QuitRequested => ret.ended # None)
    /\ [](pc = "exit" => QuitRequested)
    /\ [][/\ (pc = "returned" /\ QuitRequested) => pc' \in {"returned", "exit"}
          /\ (pc = "returned" /\ RestartRequested) => pc' \in {"returned", "typing"}
          /\ pc = "exit" => pc' = "exit"]_vars

C23_Witness ==
    /\ pc = "exit" /\ ev = "esc" /\ typed = <<>>
    /\ ret.started = None /\ ret.ended # None

====
